---------------------------- MODULE Spec2Model ----------------------------
(***************************************************************************)
(* Model of src/src/epicast/epicast_emails.py: the EpicastEmails templates *)
(* and the operations prepare, compose, get_alert, get_notification and    *)
(* get_reminder.                                                           *)
(*                                                                         *)
(* A Python str is modelled as a sequence of tokens.  A token is either a  *)
(* run of whitespace (a run of spaces, "\n", "\r\n"), a placeholder ("%s", *)
(* "%d"), the marker "{SCORE}", or a piece of text that neither begins nor *)
(* ends with whitespace.  The template definitions below are the source's  *)
(* string literals cut into such tokens, nothing left out.                 *)
(***************************************************************************)
EXTENDS Integers, Sequences, FiniteSets, TLC

VARIABLES heap, interpreter, last, previous

vars == <<heap, interpreter, last, previous>>

(***************************************************************************)
(* Python values.  An argument is an int or a str; a str is its tokens.    *)
(***************************************************************************)
PyInt(n) == [kind |-> "int", num |-> n, toks |-> <<>>]
PyStr(s) == [kind |-> "str", num |-> 0, toks |-> s]
\* the value of the score and rank parameters in a call that has none
None == [kind |-> "none", num |-> 0, toks |-> <<>>]

(***************************************************************************)
(* A call: the operation, its arguments and its outcome.  The outcome is   *)
(* the triple the call returned or the exception it raised; its status is  *)
(* "pending" while the call runs.                                          *)
(***************************************************************************)
Call(op, user_id, user_name, last_score, last_rank, total_score, total_rank) ==
  [op |-> op, user_id |-> user_id, user_name |-> user_name,
   last_score |-> last_score, last_rank |-> last_rank,
   total_score |-> total_score, total_rank |-> total_rank,
   status |-> "pending", subject |-> <<>>, text |-> <<>>, html |-> <<>>,
   exc |-> ""]

NoCall ==
  [op |-> "none", user_id |-> None, user_name |-> None,
   last_score |-> None, last_rank |-> None,
   total_score |-> None, total_rank |-> None,
   status |-> "none", subject |-> <<>>, text |-> <<>>, html |-> <<>>,
   exc |-> ""]

ArgNames ==
  {"op", "user_id", "user_name", "last_score", "last_rank", "total_score", "total_rank"}

SameArguments(c, d) == \A a \in ArgNames : c[a] = d[a]

Outcome(c) ==
  [status |-> c.status, subject |-> c.subject, text |-> c.text, html |-> c.html,
   exc |-> c.exc]

NoOutcome ==
  [status |-> "none", subject |-> <<>>, text |-> <<>>, html |-> <<>>, exc |-> ""]

(***************************************************************************)
(* Bounds of the model.                                                    *)
(***************************************************************************)
\* the largest score a caller passes (scores are unbounded ints in Python)
MaxScore == 1

(***************************************************************************)
(* EpicastEmails.Template: the template text.                              *)
(***************************************************************************)
\* Template.SUBJECT_TAG
SUBJECT_TAG ==
  << "[Crowdcast]" >>

\* Template.UNSUBSCRIBE['text']
UNSUBSCRIBE_text ==
  << "\n",
     "        ", "----------", "\n",
     "\n",
     "        ", "[This is an automated message. To edit your email preferences or to", "\n",
     "        ", "stop receiving these emails, follow the unsubscribe link below.]", "\n",
     "\n",
     "        ", "Unsubscribe: https://delphi.cmu.edu/crowdcast/preferences.php?user=", "%s", "\n",
     "      " >>

\* Template.UNSUBSCRIBE['html']
UNSUBSCRIBE_html ==
  << "\n",
     "        ", "<hr>", "\n",
     "        ", "<p style=\"color: #666; font-size: 0.8em;\">", "\n",
     "          ", "[This is an automated message. To edit your email preferences or to", "\n",
     "          ", "stop receiving these emails, click the unsubscribe link below.]", "\n",
     "          ", "<br>", "\n",
     "          ", "<a href=\"https://delphi.cmu.edu/crowdcast/preferences.php?user=", "%s", "\">", "\n",
     "          ", "Unsubscribe</a>", "\n",
     "        ", "</p>", "\n",
     "      " >>

\* Template.ALERT['subject']
ALERT_subject ==
  << "Crowdcast Needs Your Help" >>

\* Template.ALERT['text']
ALERT_text ==
  << "\n",
     "        ", "Dear", " ", "%s", ",", "\n",
     "\n",
     "        ", "[alert text here]", "\n",
     "\n",
     "        ", "-The DELPHI Team", "\n",
     "      " >>

\* Template.ALERT['html']
ALERT_html ==
  << "\n",
     "        ", "<p>", "\n",
     "          ", "Dear", " ", "%s", ",", "\n",
     "        ", "</p><p>", "\n",
     "          ", "[alert text here]", "\n",
     "        ", "</p><p>", "\n",
     "          ", "-The DELPHI Team", "\n",
     "        ", "</p>", "\n",
     "      " >>

\* Template.SCORE['text']
SCORE_text ==
  << "\n",
     "        ", "Your overall score is:", " ", "%d", " ", "(ranked #", "%d", ")", "\n",
     "\n",
     "        ", "Note: To be listed on the leaderboards, simply enter your initials on", "\n",
     "        ", "the preferences page at", "\n",
     "        ", "https://delphi.cmu.edu/crowdcast/preferences.php?user=", "%s", "\n",
     "\n",
     "        ", "You can find the leaderboards at", "\n",
     "        ", "https://delphi.cmu.edu/crowdcast/scores.php", "\n",
     "      " >>

\* Template.SCORE['html']
SCORE_html ==
  << "\n",
     "        ", "<p>", "\n",
     "          ", "Your overall score is:", " ", "%d", " ", "(<i>ranked #", "%d", "</i>)", "\n",
     "          ", "<br>", "\n",
     "          ", "Note: To be listed on the <a", "\n",
     "          ", "href=\"https://delphi.cmu.edu/crowdcast/scores.php\">leaderboards</a>,", "\n",
     "          ", "simply enter your initials on the preferences page <a", "\n",
     "          ", "href=\"https://delphi.cmu.edu/crowdcast/preferences.php?user=", "%s", "\">", "\n",
     "          ", "here</a>.", "\n",
     "        ", "</p>", "\n",
     "      " >>

\* Template.NOTIFICATION['subject']
NOTIFICATION_subject ==
  << "New Data Available (Deadline: Monday 10 AM)" >>

\* Template.NOTIFICATION['text']
NOTIFICATION_text ==
  << "\n",
     "        ", "Dear", " ", "%s", ",", "\n",
     "\n",
     "        ", "The CDC has released another week of influenza-like-illness (ILI)", "\n",
     "        ", "surveillance data. A new round of covid19-related forecasting is now", "\n",
     "        ", "underway, and we need your forecasts! We are asking you to please", "\n",
     "        ", "submit your forecasts by 10:00 AM (ET) this coming Monday. Thank you so", "\n",
     "        ", "much for your support and cooperation!", "\n",
     "\n",
     "        ", "To login and submit your forecasts, visit", "\n",
     "        ", "https://delphi.cmu.edu/crowdcast/", "\n",
     "        ", "and enter your User ID:", " ", "%s", "\n",
     "\n",
     "        ", "{SCORE}", "\n",
     "\n",
     "        ", "Thank you again for your participation, and good luck on your", "\n",
     "        ", "forecasts!", "\n",
     "\n",
     "        ", "Happy Forecasting!", "\n",
     "        ", "-The DELPHI Team", "\n",
     "      " >>

\* Template.NOTIFICATION['html']
NOTIFICATION_html ==
  << "\n",
     "        ", "<p>", "\n",
     "          ", "Dear", " ", "%s", ",", "\n",
     "        ", "</p><p>", "\n",
     "          ", "The CDC has released another week of influenza-like-illness (ILI)", "\n",
     "          ", "surveillance data. A new round of covid19-related forecasting is now", "\n",
     "          ", "underway, and we need your forecasts! We are asking you to please", "\n",
     "          ", "submit your forecasts by <b>10:00 AM (ET)</b> this coming Monday.", "\n",
     "          ", "Thank you so much for your support and cooperation!", "\n",
     "        ", "</p><p>", "\n",
     "          ", "To login and submit your forecasts, click <a", "\n",
     "          ", "href=\"https://delphi.cmu.edu/crowdcast/launch.php?user=", "%s", "\">here</a>", "\n",
     "          ", "or visit https://delphi.cmu.edu/crowdcast/ and enter your User ID:", " ", "%s", "\n",
     "        ", "</p>", "{SCORE}", "<p>", "\n",
     "          ", "Thank you again for your participation, and good luck on your", "\n",
     "          ", "forecasts!", "\n",
     "        ", "</p><p>", "\n",
     "          ", "Happy Forecasting!", "\n",
     "          ", "<br>", "\n",
     "          ", "-The DELPHI Team", "\n",
     "        ", "</p>", "\n",
     "      " >>

\* Template.REMINDER['subject']
REMINDER_subject ==
  << "Forecasts Needed (Deadline: Monday 10AM)" >>

\* Template.REMINDER['text']
REMINDER_text ==
  << "\n",
     "        ", "Dear", " ", "%s", ",", "\n",
     "\n",
     "        ", "This is just a friendly reminder that your influenza-like-illness (ILI)", "\n",
     "        ", "forecasts are due by 10:00AM (ET) on Monday. Thank you so much for your", "\n",
     "        ", "support and cooperation!", "\n",
     "\n",
     "        ", "To login and submit your forecasts, visit", "\n",
     "        ", "https://delphi.cmu.edu/crowdcast and enter your User ID:", " ", "%s", ".", "\n",
     "\n",
     "        ", "Happy Forecasting!", "\n",
     "\n",
     "        ", "-The DELPHI Team", "\n",
     "      " >>

\* Template.REMINDER['html']
REMINDER_html ==
  << "\n",
     "        ", "<p>", "\n",
     "          ", "Dear", " ", "%s", ",", "\n",
     "        ", "</p><p>", "\n",
     "          ", "This is just a friendly reminder that your influenza-like-illness", "\n",
     "          ", "(ILI) forecasts are due by <b>10:00AM (ET) on Monday</b>. Thank you", "\n",
     "          ", "so much for your support and cooperation!", "\n",
     "        ", "</p><p>", "\n",
     "          ", "To login and submit your forecasts, click <a", "\n",
     "          ", "href=\"https://delphi.cmu.edu/crowdcast/launch.php?user=", "%s", "\">here</a>", "\n",
     "          ", "or visit https://delphi.cmu.edu/crowdcast/ and enter your User ID:", " ", "%s", "\n",
     "        ", "</p><p>", "\n",
     "          ", "Happy Forecasting!", "\n",
     "          ", "<br>", "\n",
     "          ", "-The DELPHI Team", "\n",
     "        ", "</p>", "\n",
     "      " >>

\* the tokens that are whitespace to str.strip(): the runs of spaces of the
\* templates, a tab and the line breaks
Whitespace == {" ", "      ", "        ", "          ", "\n", "\r\n", "\r", "\t"}

\* str(v), as the %s conversion applies it
ToStr(v) == IF v.kind = "int" THEN <<ToString(v.num)>> ELSE v.toks

(***************************************************************************)
(* str methods used by the module.                                         *)
(***************************************************************************)
RECURSIVE FirstText(_, _)
FirstText(s, i) ==
  IF i > Len(s) \/ s[i] \notin Whitespace THEN i ELSE FirstText(s, i + 1)

RECURSIVE LastText(_, _)
LastText(s, i) ==
  IF i < 1 \/ s[i] \notin Whitespace THEN i ELSE LastText(s, i - 1)

\* s.strip()
strip(s) == SubSeq(s, FirstText(s, 1), LastText(s, Len(s)))

RECURSIVE ConcatRange(_, _, _)
\* pieces[lo] + ... + pieces[hi]
ConcatRange(pieces, lo, hi) ==
  IF lo > hi THEN <<>>
  ELSE IF lo = hi THEN pieces[lo]
  ELSE LET mid == (lo + hi) \div 2
       IN  ConcatRange(pieces, lo, mid) \o ConcatRange(pieces, mid + 1, hi)

RECURSIVE SplitRange(_, _, _, _)
\* the pieces of s[lo..hi] between the separators
SplitRange(s, sep, lo, hi) ==
  IF lo > hi THEN << <<>> >>
  ELSE IF lo = hi THEN (IF s[lo] = sep THEN << <<>>, <<>> >> ELSE << <<s[lo]>> >>)
  ELSE LET mid == (lo + hi) \div 2
           l == SplitRange(s, sep, lo, mid)
           r == SplitRange(s, sep, mid + 1, hi)
       IN  SubSeq(l, 1, Len(l) - 1) \o << l[Len(l)] \o r[1] >> \o Tail(r)

\* s.split(sep): the list of the pieces between the separators
split(s, sep) == SplitRange(s, sep, 1, Len(s))

\* sep.join(pieces)
join(sep, pieces) ==
  ConcatRange([i \in DOMAIN pieces |->
                 IF i = 1 THEN pieces[i] ELSE <<sep>> \o pieces[i]],
              1, Len(pieces))

\* s.replace(old, new): every occurrence of the marker replaced
replace(s, old, new) ==
  ConcatRange([i \in DOMAIN s |-> IF s[i] = old THEN new ELSE <<s[i]>>],
              1, Len(s))

(***************************************************************************)
(* The % operator: template % values.  The result is the formatted string  *)
(* or the TypeError that the operator raises.  The placeholders take the   *)
(* values in order, left to right; the first one that cannot be converted  *)
(* raises.                                                                 *)
(***************************************************************************)
NotEnoughArguments == "TypeError: not enough arguments for format string"
NotAllConverted == "TypeError: not all arguments converted during string formatting"
NumberRequired == "TypeError: %d format: a number is required, not str"
FormatErrors == {NotEnoughArguments, NotAllConverted, NumberRequired}

Placeholders == {"%s", "%d"}

\* a conversion that takes any value for %d
ConversionError_lenient(spec, v) == ""

\* the conversion of one value by one placeholder: "" when it succeeds
ConversionError(spec, v) ==
  IF spec = "%d" /\ v.kind # "int" THEN NumberRequired ELSE ""

Format(tpl, values) ==
  LET at == {i \in DOMAIN tpl : tpl[i] \in Placeholders}
      \* the number of the placeholder at i, counted from 1
      nth(i) == Cardinality({j \in at : j <= i})
      failing == {i \in at : \/ nth(i) > Len(values)
                             \/ ConversionError(tpl[i], values[nth(i)]) # ""}
      first == CHOOSE i \in failing : \A j \in failing : i <= j
      pieces == [i \in DOMAIN tpl |->
                   IF i \in at THEN ToStr(values[nth(i)]) ELSE <<tpl[i]>>]
  IN  IF failing # {}
      THEN [exc |-> IF nth(first) > Len(values) THEN NotEnoughArguments
                    ELSE ConversionError(tpl[first], values[nth(first)]),
            out |-> <<>>]
      ELSE IF Cardinality(at) < Len(values)
           THEN [exc |-> NotAllConverted, out |-> <<>>]
           ELSE [exc |-> "", out |-> ConcatRange(pieces, 1, Len(tpl))]

(***************************************************************************)
(* Objects.  The heap is the sequence of the objects alive; an address is  *)
(* an index into it.  The str objects of EpicastEmails.Template live at    *)
(* the first addresses for the life of the process; the objects a call     *)
(* creates come after them and die when the call ends.                     *)
(***************************************************************************)
\* the class namespace: each name bound to the address of its str object
Template ==
  [SUBJECT_TAG  |-> 1,
   UNSUBSCRIBE  |-> [text |-> 2, html |-> 3],
   ALERT        |-> [subject |-> 4, text |-> 5, html |-> 6],
   SCORE        |-> [text |-> 7, html |-> 8],
   NOTIFICATION |-> [subject |-> 9, text |-> 10, html |-> 11],
   REMINDER     |-> [subject |-> 12, text |-> 13, html |-> 14]]

\* the objects the class body creates, in the order of their addresses
TemplateObjects ==
  << SUBJECT_TAG,
     UNSUBSCRIBE_text, UNSUBSCRIBE_html,
     ALERT_subject, ALERT_text, ALERT_html,
     SCORE_text, SCORE_html,
     NOTIFICATION_subject, NOTIFICATION_text, NOTIFICATION_html,
     REMINDER_subject, REMINDER_text, REMINDER_html >>

\* a new object holding v; its address is Len(h) + 1
Alloc(h, v) == [h |-> Append(h, v), ref |-> Len(h) + 1]

\* `x += y` on an object that is changed in place, as a list is
StrIAdd_inplace(h, x, y) == [h |-> [h EXCEPT ![x] = h[x] \o h[y]], ref |-> x]

\* `x += y` for a str x: str is immutable, so the name is rebound to a new
\* object and the object it named stays as it was
StrIAdd(h, x, y) == Alloc(h, h[x] \o h[y])

\* `x += y` on an object that is changed in place, as a list is
TupleIAdd_inplace(h, x, y) == [h |-> [h EXCEPT ![x] = h[x] \o y], ref |-> x]

\* `x = y + x` in the place of `x += y`
TupleIAdd_prepend(h, x, y) == Alloc(h, y \o h[x])

\* `x += y` for a tuple x: tuple is immutable, as above
TupleIAdd(h, x, y) == Alloc(h, h[x] \o y)

\* `x = x.replace(old, new)`: a new str
StrReplace(h, x, old, new) == Alloc(h, replace(h[x], old, new))

(***************************************************************************)
(* What a call gives back: the triple it returns or the exception it       *)
(* raises, and the heap it leaves.                                         *)
(***************************************************************************)
Return(h, subject, text, html) ==
  [status |-> "return", subject |-> subject, text |-> text, html |-> html,
   exc |-> "", h |-> h]

Raise(h, exc) ==
  [status |-> "raise", subject |-> <<>>, text |-> <<>>, html |-> <<>>,
   exc |-> exc, h |-> h]

(***************************************************************************)
(* EpicastEmails.prepare and EpicastEmails.compose.                        *)
(***************************************************************************)
\* [line.strip() for line in lines]
StripEach(lines) == [i \in DOMAIN lines |-> strip(lines[i])]

\* prepare without the strip of the joined text
prepare_unstripped(text) == join("\r\n", StripEach(split(text, "\n")))

prepare(text) == strip(join("\r\n", StripEach(split(text, "\n"))))

\* SUBJECT_TAG + subject, the space left out
final_subject_joined(h, subject) == h[Template.SUBJECT_TAG] \o h[subject]

\* SUBJECT_TAG + ' ' + subject
final_subject(h, subject) == h[Template.SUBJECT_TAG] \o <<" ">> \o h[subject]

compose(h, user_id, subject, text_template, html_template, text_values, html_values) ==
  LET t1 == StrIAdd(h, text_template, Template.UNSUBSCRIBE.text)
      t2 == TupleIAdd(t1.h, text_values, <<user_id>>)
      final_text == Format(prepare(t2.h[t1.ref]), t2.h[t2.ref])
      h1 == StrIAdd(t2.h, html_template, Template.UNSUBSCRIBE.html)
      h2 == TupleIAdd(h1.h, html_values, <<user_id>>)
      final_html == Format(prepare(h2.h[h1.ref]), h2.h[h2.ref])
  IN  IF final_text.exc # "" THEN Raise(t2.h, final_text.exc)
      ELSE IF final_html.exc # "" THEN Raise(h2.h, final_html.exc)
      ELSE Return(h2.h, final_subject(h, subject), final_text.out, final_html.out)

(***************************************************************************)
(* The three operations.                                                   *)
(***************************************************************************)
get_alert(h, user_id, user_name) ==
  LET values == Alloc(h, <<user_name>>)
  IN  compose(values.h, user_id, Template.ALERT.subject, Template.ALERT.text,
              Template.ALERT.html, values.ref, values.ref)

\* the test `last_score >= 0` in the place of `last_score > 0`
GreaterThanZero_orEqual(py, v) ==
  IF v.kind = "int" THEN (IF v.num >= 0 THEN "True" ELSE "False")
  ELSE IF py = "python3" THEN "TypeError" ELSE "True"

\* `last_score > 0` under the interpreter that runs the module: Python 3
\* does not order a str and an int, Python 2 orders every str above every int
GreaterThanZero(py, v) ==
  IF v.kind = "int" THEN (IF v.num > 0 THEN "True" ELSE "False")
  ELSE IF py = "python3" THEN "TypeError" ELSE "True"

Unorderable == "TypeError: '>' not supported between instances of 'str' and 'int'"

notification_text_values(user_id, user_name) == <<user_name, user_id>>

\* the html values without the id of the launch link
notification_html_values_short(user_id, user_name) == <<user_name, user_id>>

notification_html_values(user_id, user_name) == <<user_name, user_id, user_id>>

\* the score values with the rank before the score
score_values_swapped(total_score, total_rank, user_id) == <<total_rank, total_score, user_id>>

score_values(total_score, total_rank, user_id) == <<total_score, total_rank, user_id>>

get_notification(h, py, user_id, user_name, last_score, last_rank, total_score, total_rank) ==
  LET template == Template.NOTIFICATION
      tv == Alloc(h, notification_text_values(user_id, user_name))
      hv == Alloc(tv.h, notification_html_values(user_id, user_name))
      test == GreaterThanZero(py, last_score)
      \* the branch that includes the embedded scoring section
      st == StrReplace(hv.h, template.text, "{SCORE}", hv.h[Template.SCORE.text])
      sh == StrReplace(st.h, template.html, "{SCORE}", st.h[Template.SCORE.html])
      sv == Alloc(sh.h, score_values(total_score, total_rank, user_id))
      stv == TupleIAdd(sv.h, tv.ref, sv.h[sv.ref])
      shv == TupleIAdd(stv.h, hv.ref, stv.h[sv.ref])
      \* the branch that omits it
      ot == StrReplace(hv.h, template.text, "{SCORE}", <<>>)
      oh == StrReplace(ot.h, template.html, "{SCORE}", <<>>)
  IN  IF test = "TypeError" THEN Raise(hv.h, Unorderable)
      ELSE IF test = "True"
           THEN compose(shv.h, user_id, template.subject, st.ref, sh.ref,
                        stv.ref, shv.ref)
           ELSE compose(oh.h, user_id, template.subject, ot.ref, oh.ref,
                        tv.ref, hv.ref)

reminder_text_values(user_id, user_name) == <<user_name, user_id>>

\* the html values without the visible id
reminder_html_values_short(user_id, user_name) == <<user_name, user_id>>

reminder_html_values(user_id, user_name) == <<user_name, user_id, user_id>>

get_reminder(h, user_id, user_name) ==
  LET template == Template.REMINDER
      tv == Alloc(h, reminder_text_values(user_id, user_name))
      hv == Alloc(tv.h, reminder_html_values(user_id, user_name))
  IN  compose(hv.h, user_id, template.subject, template.text, template.html,
              tv.ref, hv.ref)

(***************************************************************************)
(* The arguments callers pass.                                             *)
(***************************************************************************)
UserIds == {PyStr(<<"u123">>), PyStr(<<>>)}
UserNames == {PyStr(<<"Jane">>), PyStr(<<"Jane", "\n", "Doe">>)}
\* a score or rank that is no number
NonNumeric == PyStr(<<"n/a">>)
LastScores == {PyInt(n) : n \in (-1)..MaxScore} \cup {NonNumeric}
LastRanks == {PyInt(2), NonNumeric}
TotalScores == {PyInt(n) : n \in 0..MaxScore} \cup {NonNumeric}
TotalRanks == {PyInt(3), NonNumeric}

(***************************************************************************)
(* The state machine: a process that imported the module, and callers that *)
(* call the three operations one after the other, in any order and with    *)
(* any arguments.  A caller invokes an operation, and the operation   *)
(* runs from its first line to its return or raise (GetAlert,              *)
(* GetNotification, GetReminder).                                          *)
(*   heap         the objects alive between calls: the template strs      *)
(*   interpreter  the Python that runs the module, fixed for the process;  *)
(*                the module predates Python 3.6 (comment at line 18) and  *)
(*                runs unchanged under Python 2 and Python 3               *)
(*   last         the latest call: the operation, its arguments, and its   *)
(*                outcome once it has ended ("pending" until then)         *)
(*   previous     the outcome of the call before the latest, kept when the *)
(*                latest call passes the very same arguments               *)
(***************************************************************************)
\* a caller calls: the call before has ended
Invoke(c) ==
  /\ last.status # "pending"
  /\ last' = c
  /\ previous' = IF SameArguments(last, c) THEN Outcome(last) ELSE NoOutcome
  /\ UNCHANGED <<heap, interpreter>>

\* the call ends with r: its own objects die, its outcome goes to the caller
Finish(r) ==
  /\ heap' = SubSeq(r.h, 1, Len(TemplateObjects))
  /\ last' = [last EXCEPT !.status = r.status, !.subject = r.subject,
                          !.text = r.text, !.html = r.html, !.exc = r.exc]
  /\ UNCHANGED <<interpreter, previous>>

Init ==
  /\ heap = TemplateObjects
  /\ interpreter \in {"python2", "python3"}
  /\ last = NoCall
  /\ previous = NoOutcome

InvokeAlert ==
  \E user_id \in UserIds, user_name \in UserNames :
    Invoke(Call("get_alert", user_id, user_name, None, None, None, None))

InvokeNotification ==
  \E user_id \in UserIds, user_name \in UserNames,
     last_score \in LastScores, last_rank \in LastRanks,
     total_score \in TotalScores, total_rank \in TotalRanks :
    Invoke(Call("get_notification", user_id, user_name, last_score, last_rank,
                total_score, total_rank))

InvokeReminder ==
  \E user_id \in UserIds, user_name \in UserNames :
    Invoke(Call("get_reminder", user_id, user_name, None, None, None, None))

GetAlert ==
  /\ last.status = "pending"
  /\ last.op = "get_alert"
  /\ Finish(get_alert(heap, last.user_id, last.user_name))

GetNotification ==
  /\ last.status = "pending"
  /\ last.op = "get_notification"
  /\ Finish(get_notification(heap, interpreter, last.user_id, last.user_name,
                             last.last_score, last.last_rank, last.total_score,
                             last.total_rank))

GetReminder ==
  /\ last.status = "pending"
  /\ last.op = "get_reminder"
  /\ Finish(get_reminder(heap, last.user_id, last.user_name))

Next ==
  \/ InvokeAlert
  \/ InvokeNotification
  \/ InvokeReminder
  \/ GetAlert
  \/ GetNotification
  \/ GetReminder

Spec == Init /\ [][Next]_vars
(***************************************************************************)
(* Vocabulary of the properties.                                           *)
(***************************************************************************)
Finished == last.status \in {"return", "raise"}
Returned == last.status = "return"
Numeric(v) == v.kind = "int"

\* the two bodies of the latest call, by variant
Body(variant) == IF variant = "text" THEN last.text ELSE last.html
Variants == {"text", "html"}

\* how often the token occurs in the string
Count(s, tok) == Cardinality({i \in DOMAIN s : s[i] = tok})

\* how often the non-empty string sub occurs in the string s
CountSeq(s, sub) ==
  Cardinality({i \in 1..(Len(s) - Len(sub) + 1) : SubSeq(s, i, i + Len(sub) - 1) = sub})

\* s ends with suffix
EndsWith(s, suffix) ==
  /\ Len(suffix) <= Len(s)
  /\ SubSeq(s, Len(s) - Len(suffix) + 1, Len(s)) = suffix

\* the string `piece` stands in s right after position i
Follows(s, i, piece) ==
  /\ i + Len(piece) <= Len(s)
  /\ SubSeq(s, i + 1, i + Len(piece)) = piece

ScorePhrase == "Your overall score is:"
Markers == {"%s", "%d", "{SCORE}"}

(***************************************************************************)
(* C1: get_notification includes the score section in both bodies if and   *)
(* only if last_score > 0, whatever last_rank, total_score and total_rank  *)
(* are.  With last_score <= 0 the call returns, neither body holds the     *)
(* phrase "Your overall score is" and no score value is supplied (a score  *)
(* or rank that is no number does not make the call fail).  With           *)
(* last_score > 0 and numeric totals the call returns and both bodies hold *)
(* the phrase exactly once, also when total_score is 0; whenever it        *)
(* returns, both bodies hold the phrase exactly once.                      *)
(***************************************************************************)
C1_ScoreSectionIffLastScorePositive ==
  (Finished /\ last.op = "get_notification" /\ Numeric(last.last_score)) =>
    IF last.last_score.num > 0
    THEN /\ (Numeric(last.total_score) /\ Numeric(last.total_rank)) => Returned
         /\ Returned => \A v \in Variants : Count(Body(v), ScorePhrase) = 1
    ELSE /\ Returned
         /\ \A v \in Variants : Count(Body(v), ScorePhrase) = 0

C1_Witness ==
  /\ last.op = "get_notification"
  /\ Returned
  /\ last.last_score = PyInt(1)
  /\ last.total_score = PyInt(0)
  /\ Count(last.text, ScorePhrase) = 1
  /\ Count(last.html, ScorePhrase) = 1

(***************************************************************************)
(* C2: for valid inputs (str user id and name, int scores and ranks) each  *)
(* of get_alert, get_notification and get_reminder returns a triple, and   *)
(* no body of it holds a placeholder (%s, %d) or the marker {SCORE}.       *)
(***************************************************************************)
ValidInputs ==
  \/ last.op \in {"get_alert", "get_reminder"}
  \/ /\ last.op = "get_notification"
     /\ Numeric(last.last_score) /\ Numeric(last.last_rank)
     /\ Numeric(last.total_score) /\ Numeric(last.total_rank)

C2_NoMarkerLeft ==
  (Finished /\ ValidInputs) =>
    /\ Returned
    /\ \A v \in Variants : \A i \in DOMAIN Body(v) : Body(v)[i] \notin Markers

C2_Witness ==
  /\ last.op = "get_notification"
  /\ ValidInputs
  /\ Returned
  /\ last.last_score.num > 0
  /\ Count(last.html, ScorePhrase) = 1
  /\ \A i \in DOMAIN last.html : last.html[i] \notin Markers

(***************************************************************************)
(* C3: in every body returned, each placeholder position holds the value   *)
(* meant for it.  A position is told by the template text before it: the   *)
(* salutation holds user_name; every `user=` query parameter (launch,      *)
(* preferences and unsubscribe links) and every visible "User ID" holds    *)
(* user_id unchanged; in the score section the score position holds        *)
(* total_score and the rank position holds total_rank.  Each body has as   *)
(* many positions as its template has placeholders, and last_score and     *)
(* last_rank stand nowhere in a body.                                      *)
(***************************************************************************)
\* the text before a placeholder, the gap between them, the field it is for
Positions ==
  { [before |-> "Dear", gap |-> <<" ">>, field |-> "user_name"],
    [before |-> "and enter your User ID:", gap |-> <<" ">>, field |-> "user_id"],
    [before |-> "https://delphi.cmu.edu/crowdcast and enter your User ID:",
     gap |-> <<" ">>, field |-> "user_id"],
    [before |-> "or visit https://delphi.cmu.edu/crowdcast/ and enter your User ID:",
     gap |-> <<" ">>, field |-> "user_id"],
    [before |-> "href=\"https://delphi.cmu.edu/crowdcast/launch.php?user=",
     gap |-> <<>>, field |-> "user_id"],
    [before |-> "https://delphi.cmu.edu/crowdcast/preferences.php?user=",
     gap |-> <<>>, field |-> "user_id"],
    [before |-> "href=\"https://delphi.cmu.edu/crowdcast/preferences.php?user=",
     gap |-> <<>>, field |-> "user_id"],
    [before |-> "Unsubscribe: https://delphi.cmu.edu/crowdcast/preferences.php?user=",
     gap |-> <<>>, field |-> "user_id"],
    [before |-> "<a href=\"https://delphi.cmu.edu/crowdcast/preferences.php?user=",
     gap |-> <<>>, field |-> "user_id"],
    [before |-> "Your overall score is:", gap |-> <<" ">>, field |-> "total_score"],
    [before |-> "(ranked #", gap |-> <<>>, field |-> "total_rank"],
    [before |-> "(<i>ranked #", gap |-> <<>>, field |-> "total_rank"] }

\* the number of positions of a body for the field
PositionsFor(s, field) ==
  Cardinality({i \in DOMAIN s :
                 \E p \in Positions : p.field = field /\ p.before = s[i]})

\* the positions the templates of the latest call have for the field
Expected(variant, field) ==
  LET scored == last.op = "get_notification" /\ Count(Body(variant), ScorePhrase) = 1
      linked == last.op # "get_alert" /\ variant = "html"
  IN  CASE field = "user_name" -> 1
        [] field = "user_id" ->
             1 + (IF last.op = "get_alert" THEN 0 ELSE 1)
               + (IF linked THEN 1 ELSE 0) + (IF scored THEN 1 ELSE 0)
        [] OTHER -> IF scored THEN 1 ELSE 0

\* the int argument stands nowhere in the body, unless a total equals it
Absent(s, v) ==
  (Numeric(v) /\ v # last.total_score /\ v # last.total_rank) =>
    Count(s, ToString(v.num)) = 0

C3_EachPositionHoldsItsValue ==
  Returned =>
    \A v \in Variants :
      /\ \A i \in DOMAIN Body(v) : \A p \in Positions :
           Body(v)[i] = p.before =>
             Follows(Body(v), i, p.gap \o ToStr(last[p.field]))
      /\ \A f \in {"user_name", "user_id", "total_score", "total_rank"} :
           PositionsFor(Body(v), f) = Expected(v, f)
      /\ last.op = "get_notification" =>
           Absent(Body(v), last.last_score) /\ Absent(Body(v), last.last_rank)

C3_Witness ==
  /\ last.op = "get_notification"
  /\ Returned
  /\ last.user_id = PyStr(<<"u123">>)
  /\ last.last_score = PyInt(1)
  /\ last.total_score = PyInt(0)
  /\ PositionsFor(last.html, "user_id") = 4
  /\ PositionsFor(last.text, "total_rank") = 1
  /\ \E i \in DOMAIN last.text :
       /\ last.text[i] = ScorePhrase
       /\ Follows(last.text, i, <<" ", "0", " ", "(ranked #", "3", ")">>)

(***************************************************************************)
(* C4 as stated: get_notification called with a score or rank that is no   *)
(* number (any of last_score, last_rank, total_score, total_rank) fails    *)
(* with the formatting error of substitution and returns no triple.  Read  *)
(* in the claim's favour, the TypeError of the comparison `last_score > 0` *)
(* counts as that failure too.                                             *)
(***************************************************************************)
SomeNonNumeric ==
  \/ ~Numeric(last.last_score) \/ ~Numeric(last.last_rank)
  \/ ~Numeric(last.total_score) \/ ~Numeric(last.total_rank)

NothingReturned ==
  last.status = "raise" /\ last.subject = <<>> /\ last.text = <<>> /\ last.html = <<>>

C4_AnyNonNumericFails ==
  (Finished /\ last.op = "get_notification" /\ SomeNonNumeric) =>
    NothingReturned /\ last.exc \in FormatErrors \cup {Unorderable}

(***************************************************************************)
(* C4, amended: get_notification called with a numeric last_score > 0 and  *)
(* a total_score or total_rank that is no number fails with the formatting *)
(* error of substitution ("%d format: a number is required"); the error    *)
(* reaches the caller as raised and no triple, so no partly substituted    *)
(* body, is returned.                                                      *)
(***************************************************************************)
C4_NonNumericTotalFails ==
  ( /\ Finished
    /\ last.op = "get_notification"
    /\ Numeric(last.last_score) /\ last.last_score.num > 0
    /\ (~Numeric(last.total_score) \/ ~Numeric(last.total_rank)) ) =>
    NothingReturned /\ last.exc = NumberRequired

C4_Witness ==
  /\ last.op = "get_notification"
  /\ last.last_score = PyInt(1)
  /\ Numeric(last.total_score)
  /\ ~Numeric(last.total_rank)
  /\ NothingReturned
  /\ last.exc = NumberRequired

(***************************************************************************)
(* C5: every text and html body returned ends with the normalized          *)
(* unsubscribe fragment of its variant with the user_id of the call        *)
(* substituted into it; nothing of the message template follows it.        *)
(***************************************************************************)
\* prepare(UNSUBSCRIBE[variant]) % (user_id,)
UnsubscribeFragment(variant, user_id) ==
  Format(prepare(IF variant = "text" THEN UNSUBSCRIBE_text ELSE UNSUBSCRIBE_html),
         <<user_id>>).out

C5_EndsWithUnsubscribe ==
  Returned =>
    \A v \in Variants :
      EndsWith(Body(v), UnsubscribeFragment(v, last.user_id))

C5_Witness ==
  /\ last.op = "get_reminder"
  /\ Returned
  /\ last.user_id = PyStr(<<"u123">>)
  /\ EndsWith(last.text,
              <<"Unsubscribe: https://delphi.cmu.edu/crowdcast/preferences.php?user=",
                "u123">>)
  /\ EndsWith(last.html, UnsubscribeFragment("html", last.user_id))

(***************************************************************************)
(* C6 as stated: every body returned, after the values are substituted,    *)
(* has no line with leading or trailing whitespace, separates its lines    *)
(* with CRLF only (no bare LF), and has no leading or trailing blank line. *)
(***************************************************************************)
\* the lines of a body: the pieces between the CRLFs
Lines(s) == split(s, "\r\n")

Clean(s) ==
  /\ \A i \in DOMAIN s : s[i] \notin {"\n", "\r"}
  /\ \A k \in DOMAIN Lines(s) :
       LET line == Lines(s)[k]
       IN  line # <<>> =>
             line[1] \notin Whitespace /\ line[Len(line)] \notin Whitespace
  /\ Lines(s)[1] # <<>>
  /\ Lines(s)[Len(Lines(s))] # <<>>

C6_ComposedOutputClean ==
  Returned => \A v \in Variants : Clean(Body(v))

(***************************************************************************)
(* C6, amended: the bodies are normalized before the values are            *)
(* substituted, and the values go in as they are.  Every body returned has *)
(* no line with leading or trailing whitespace, CRLF between its lines, no *)
(* bare LF and no leading or trailing blank line, provided that no str     *)
(* argument is empty, begins or ends with whitespace, or holds a line      *)
(* break.                                                                  *)
(***************************************************************************)
\* a str argument that is not empty, has no whitespace at its ends and no
\* line break; an int or absent argument
CleanValue(v) ==
  v.kind = "str" =>
    /\ v.toks # <<>>
    /\ v.toks[1] \notin Whitespace
    /\ v.toks[Len(v.toks)] \notin Whitespace
    /\ \A i \in DOMAIN v.toks : v.toks[i] \notin {"\n", "\r", "\r\n"}

C6_CleanWhenValuesClean ==
  ( /\ Returned
    /\ \A a \in ArgNames \ {"op"} : CleanValue(last[a]) ) =>
    \A v \in Variants : Clean(Body(v))

C6_Witness ==
  /\ last.op = "get_notification"
  /\ Returned
  /\ last.last_score.num > 0
  /\ \A a \in ArgNames \ {"op"} : CleanValue(last[a])
  /\ Len(Lines(last.text)) > 20
  /\ Clean(last.text)
  /\ Clean(last.html)

(***************************************************************************)
(* C7 as stated: for get_reminder with an id and a name that are not in    *)
(* the template text, the text body holds the name exactly once and the id *)
(* exactly once outside the footer, the footer's unsubscribe URL ends with *)
(* user=<id>, and the html body holds the id twice.                        *)
(***************************************************************************)
\* the body without its unsubscribe footer
Message(variant) ==
  SubSeq(Body(variant), 1,
         Len(Body(variant)) - Len(UnsubscribeFragment(variant, last.user_id)))

\* neither the id nor the name is empty, in the other, or in the templates
FreshArguments ==
  LET id == last.user_id.toks
      name == last.user_name.toks
  IN  /\ id # <<>> /\ name # <<>>
      /\ CountSeq(id, name) = 0 /\ CountSeq(name, id) = 0
      /\ \A t \in {REMINDER_text, REMINDER_html, UNSUBSCRIBE_text, UNSUBSCRIBE_html} :
           CountSeq(prepare(t), id) = 0 /\ CountSeq(prepare(t), name) = 0

ReminderText ==
  /\ Returned
  /\ CountSeq(last.text, last.user_name.toks) = 1
  /\ CountSeq(Message("text"), last.user_name.toks) = 1
  /\ CountSeq(Message("text"), last.user_id.toks) = 1
  /\ EndsWith(last.text,
              <<"Unsubscribe: https://delphi.cmu.edu/crowdcast/preferences.php?user=">>
                \o last.user_id.toks)

C7_ReminderIdTwiceInHtml ==
  (Finished /\ last.op = "get_reminder" /\ FreshArguments) =>
    /\ ReminderText
    /\ CountSeq(last.html, last.user_id.toks) = 2

(***************************************************************************)
(* C7, amended: ... and the html body holds the id twice outside the       *)
(* footer (link href and visible id) and a third time in the footer's      *)
(* unsubscribe link, three times in all.                                   *)
(***************************************************************************)
C7_ReminderIdTwiceOutsideFooter ==
  (Finished /\ last.op = "get_reminder" /\ FreshArguments) =>
    /\ ReminderText
    /\ CountSeq(Message("html"), last.user_id.toks) = 2
    /\ CountSeq(last.html, last.user_id.toks) = 3
    /\ \E i \in DOMAIN last.html :
         /\ last.html[i] = "href=\"https://delphi.cmu.edu/crowdcast/launch.php?user="
         /\ Follows(last.html, i, last.user_id.toks)

C7_Witness ==
  /\ last.op = "get_reminder"
  /\ Returned
  /\ last.user_id = PyStr(<<"u123">>)
  /\ last.user_name = PyStr(<<"Jane">>)
  /\ FreshArguments
  /\ Count(Message("text"), "u123") = 1
  /\ Count(Message("html"), "u123") = 2
  /\ Count(last.html, "u123") = 3

TemplateSubject(op) ==
  CASE op = "get_alert" -> "Crowdcast Needs Your Help"
    [] op = "get_notification" -> "New Data Available (Deadline: Monday 10 AM)"
    [] op = "get_reminder" -> "Forecasts Needed (Deadline: Monday 10AM)"

C9_SubjectIsTagSpaceSubject ==
  Returned => last.subject = <<"[Crowdcast]", " ", TemplateSubject(last.op)>>

C9_Witness ==
  /\ last.op = "get_notification"
  /\ Returned
  /\ last.last_score.num <= 0
  /\ last.subject = <<"[Crowdcast]", " ", "New Data Available (Deadline: Monday 10 AM)">>

(***************************************************************************)
(* C10: get_alert hands one tuple, (user_name,), to compose for both       *)
(* bodies, and what compose appends to it for the text body does not show  *)
(* in the values of the html body: every get_alert call returns, and each  *)
(* of its bodies is the normalized template filled from exactly            *)
(* (user_name, user_id), user_name in the salutation and user_id in the    *)
(* unsubscribe link, each once.                                            *)
(***************************************************************************)
AlertTemplate(variant) ==
  IF variant = "text" THEN ALERT_text \o UNSUBSCRIBE_text
  ELSE ALERT_html \o UNSUBSCRIBE_html

C10_AlertValuesNotShared ==
  (Finished /\ last.op = "get_alert") =>
    /\ Returned
    /\ \A v \in Variants :
         /\ Body(v) = Format(prepare(AlertTemplate(v)),
                             <<last.user_name, last.user_id>>).out
         /\ PositionsFor(Body(v), "user_name") = 1
         /\ PositionsFor(Body(v), "user_id") = 1
         /\ Len(Body(v)) = Len(prepare(AlertTemplate(v))) - 2
                             + Len(last.user_name.toks) + Len(last.user_id.toks)

C10_Witness ==
  /\ last.op = "get_alert"
  /\ Returned
  /\ last.user_id = PyStr(<<"u123">>)
  /\ last.user_name = PyStr(<<"Jane">>)
  /\ Count(last.text, "Jane") = 1 /\ Count(last.text, "u123") = 1
  /\ Count(last.html, "Jane") = 1 /\ Count(last.html, "u123") = 1

=============================================================================
